---- MODULE Spec2Model ----
(***************************************************************************)
(* Model of multipoop.py: a chunked parallel evaluation of                 *)
(* x**2 + cos(x) over an array x0, fanned out to nprocess worker processes *)
(* (one multiprocessing.Queue each) and gathered by the main process.      *)
(*                                                                         *)
(* Arrays are functions over 0..len-1 (Python indexing).  Floating point   *)
(* values are fixed-point integers in thousandths.  The script's           *)
(* hard-coded sizes (len(x0) = 1000000, nprocess = 12) are drawn from      *)
(* bounded sets in Init.                                                   *)
(***************************************************************************)
EXTENDS Integers, Sequences, FiniteSets, TLC

\* bounds of the concurrent model
MaxN == 3
MaxP == 3
MaxVal == 1
\* bounds of the partition-only model
PartMaxN == 10
PartMaxP == 12
\* executions of the script in the re-run model
MaxRuns == 2
\* distinct image / scatter data arrays handed to the widgets
MaxData == 2

VARIABLES x0, y0, nprocess, queues, processes, y1, pc, i, puts, reads, part

\* executions of the script on the same input: their number, and the y1 the
\* previous one ended with
VARIABLES run, prev

\* the widgets: miw, a MaskImageWidget, and msw, a MaskScatterWidget, each
\* with the plot items kept under its legends; button, the msw's
\* ColormapToolButton with its dialogs; ret, the last call made and what it
\* returned; atOpen, the msw as it was when the running dialog was opened
VARIABLES miw, msw, button, ret, atOpen

guiVars == <<miw, msw, button, ret, atOpen>>

scriptVars == <<x0, y0, nprocess, queues, processes, y1, pc, i, puts, reads,
                part, run, prev>>

vars == <<x0, y0, nprocess, queues, processes, y1, pc, i, puts, reads, part,
          run, prev, miw, msw, button, ret, atOpen>>

\* content of a slot of numpy.empty_like(x0) that was never assigned
Uninit == -999999

----------------------------------------------------------------------------
\* numpy helpers

len(a) == Cardinality(DOMAIN a)

Abs(v) == IF v < 0 THEN 0 - v ELSE v

Min(a, b) == IF a < b THEN a ELSE b

\* numpy.cos on the sample points, in thousandths (rounded)
cos(v) == CASE v = 0 -> 1000
            [] v = 1 -> 540
            [] v = 2 -> -416
            [] v = 3 -> -990
            [] v = 4 -> -654
            [] OTHER -> 284

\* one element of x**2 + numpy.cos(x), in thousandths
Elem(v) == 1000 * v * v + cos(v)

\* a[lo:hi] for 0 <= lo, 0 <= hi (bounds clipped to the length)
Slice(a, lo, hi) ==
    LET l == Min(lo, len(a))
        h == Min(hi, len(a))
    IN  [k \in 0..(h - l - 1) |-> a[l + k]]

\* number of elements of a[lo:hi]
SliceLen(a, lo, hi) ==
    LET l == Min(lo, len(a))
        h == Min(hi, len(a))
    IN  IF h > l THEN h - l ELSE 0

\* a[lo:hi] = v is accepted when v has the shape of the slice or one
\* element (broadcast); otherwise numpy raises ValueError
CanAssign(a, lo, hi, v) == len(v) = SliceLen(a, lo, hi) \/ len(v) = 1

\* a[lo:hi] = v, elementwise
SetSlice(a, lo, hi, v) ==
    LET l == Min(lo, len(a))
        h == Min(hi, len(a))
    IN  [k \in DOMAIN a |->
            IF l <= k /\ k < h
            THEN (IF len(v) = 1 THEN v[0] ELSE v[k - l])
            ELSE a[k]]

\* numpy.allclose(a, b): |a - b| <= atol + rtol * |b| elementwise, with
\* atol = 1e-8 and rtol = 1e-5 (scaled by 1e8 on values in thousandths).
\* The set of results it can return: reading a slot that was never
\* assigned can give either result.
allclose(a, b) ==
    IF \E k \in DOMAIN b : b[k] = Uninit
    THEN BOOLEAN
    ELSE {\A k \in DOMAIN a : 100000 * Abs(a[k] - b[k]) <= 1 + Abs(b[k])}

----------------------------------------------------------------------------
\* the script's functions

f0(x) == [k \in DOMAIN x |-> Elem(x[k])]

\* the boundary is rounded up instead of down
first_idx_ceil(w) == (w * len(x0) + nprocess - 1) \div nprocess

first_idx(w) == (w * len(x0)) \div nprocess

\* the boundary is rounded up instead of down
last_idx_ceil(w) == ((w + 1) * len(x0) + nprocess - 1) \div nprocess

\* every chunk gets len(x0) // nprocess elements: the remainder is dropped
last_idx_noRemainder(w) == first_idx(w) + len(x0) \div nprocess

last_idx(w) == ((w + 1) * len(x0)) \div nprocess

\* the worker slices from 0 instead of first_idx(w)
f_ret_noOffset(x, w) ==
    LET s == Slice(x, 0, last_idx(w) - first_idx(w))
    IN  [k \in DOMAIN s |-> 1000 * s[k] * s[k] + cos(s[k])]

\* the worker never returns a zero-length array
f_ret_pad(x, w) ==
    LET s == Slice(x, first_idx(w), last_idx(w))
    IN  IF len(s) = 0
        THEN [k \in 0..0 |-> 0]
        ELSE [k \in DOMAIN s |-> 1000 * s[k] * s[k] + cos(s[k])]

\* the array worker w puts on its queue
f_ret(x, w) ==
    LET s == Slice(x, first_idx(w), last_idx(w))
    IN  [k \in DOMAIN s |-> 1000 * s[k] * s[k] + cos(s[k])]

\* every process is handed queues[0]
ProcessArgs_sharedQueue(w) == [x |-> x0, i |-> w, queue |-> 0]

\* args of processes[w]: (x0, i, queues[i]); the queue is named by its index
ProcessArgs(w) == [x |-> x0, i |-> w, queue |-> w]

----------------------------------------------------------------------------
\* the widgets of MaskImageWidget.py and MaskScatterWidget.py as constructed

\* Python's None, and a value that is not None
None == <<>>

Some(v) == <<v>>

\* PlotWidget.getDefaultColormap()
DefaultColormap == "gray"

\* state of both widgets after __init__
GuiSetup ==
    /\ miw = [bg |-> None, active |-> None]
    /\ msw = [bg |-> None, scatter |-> None]
    /\ button = [_bg_dialog |-> FALSE, _scatter_dialog |-> FALSE,
                 exec |-> "none", colormap |-> None]
    /\ ret = [op |-> "__init__", value |-> None]
    /\ atOpen = [bg |-> None, scatter |-> None]

----------------------------------------------------------------------------
\* state after the module-level definitions (lines 5-26)

Setup ==
    /\ y0 = f0(x0)
    /\ queues = [w \in 0..(nprocess - 1) |-> <<>>]
    /\ processes = [w \in 0..(nprocess - 1) |->
                        [args |-> ProcessArgs(w), state |-> "created"]]
    /\ y1 = <<>>
    /\ pc = "start"
    /\ i = 0
    /\ puts = <<>>
    /\ reads = <<>>
    /\ part = <<>>
    /\ run = 1
    /\ prev = <<>>

Init ==
    /\ \E N \in 0..MaxN : x0 \in [0..(N - 1) -> 0..MaxVal]
    /\ nprocess \in (0 - 1)..MaxP
    /\ Setup
    /\ GuiSetup

----------------------------------------------------------------------------
\* main process

\* for i in range(nprocess): processes[i].start()
Start ==
    /\ pc = "start"
    /\ i < nprocess
    /\ processes' = [processes EXCEPT ![i].state = "started"]
    /\ i' = i + 1
    /\ UNCHANGED <<guiVars, run, prev, x0, y0, nprocess, queues, y1, pc, puts, reads, part>>

\* the start loop is left one process short
Alloc_early ==
    /\ pc = "start"
    /\ i >= nprocess - 1
    /\ y1' = [k \in DOMAIN x0 |-> Uninit]
    /\ pc' = "collect"
    /\ i' = 0
    /\ UNCHANGED <<guiVars, run, prev, x0, y0, nprocess, queues, processes, puts, reads, part>>

\* y1 = numpy.empty_like(x0), then enter the enumerate(queues) loop
Alloc ==
    /\ pc = "start"
    /\ i >= nprocess
    /\ y1' = [k \in DOMAIN x0 |-> Uninit]
    /\ pc' = "collect"
    /\ i' = 0
    /\ UNCHANGED <<guiVars, run, prev, x0, y0, nprocess, queues, processes, puts, reads, part>>

\* the queues are drained last to first
Collect_backward ==
    /\ pc = "collect"
    /\ i < nprocess
    /\ LET c == nprocess - 1 - i
       IN  /\ queues[c] # <<>>
           /\ queues' = [queues EXCEPT ![c] = Tail(@)]
           /\ reads' = Append(reads, c)
           /\ part' = Append(part, <<first_idx(c), last_idx(c)>>)
           /\ y1' = SetSlice(y1, first_idx(c), last_idx(c), Head(queues[c]))
    /\ i' = i + 1
    /\ UNCHANGED <<guiVars, run, prev, x0, y0, nprocess, processes, pc, puts>>

\* q.get gives up on an empty queue and the loop moves on
Collect_timeout ==
    /\ pc = "collect"
    /\ i < nprocess
    /\ IF queues[i] # <<>>
       THEN /\ queues' = [queues EXCEPT ![i] = Tail(@)]
            /\ reads' = Append(reads, i)
            /\ part' = Append(part, <<first_idx(i), last_idx(i)>>)
            /\ y1' = SetSlice(y1, first_idx(i), last_idx(i), Head(queues[i]))
       ELSE UNCHANGED <<queues, reads, part, y1>>
    /\ i' = i + 1
    /\ UNCHANGED <<guiVars, run, prev, x0, y0, nprocess, processes, pc, puts>>

\* the main process takes whichever result is ready and stores it in slice i
Collect_anyReady ==
    /\ pc = "collect"
    /\ i < nprocess
    /\ \E c \in DOMAIN queues :
          /\ queues[c] # <<>>
          /\ queues' = [queues EXCEPT ![c] = Tail(@)]
          /\ reads' = Append(reads, c)
          /\ IF CanAssign(y1, first_idx(i), last_idx(i), Head(queues[c]))
             THEN /\ y1' = SetSlice(y1, first_idx(i), last_idx(i), Head(queues[c]))
                  /\ i' = i + 1
                  /\ pc' = pc
             ELSE /\ pc' = "ValueError"
                  /\ UNCHANGED <<y1, i>>
    /\ part' = Append(part, <<first_idx(i), last_idx(i)>>)
    /\ UNCHANGED <<guiVars, run, prev, x0, y0, nprocess, processes, puts>>

\* y1[first_idx(i):last_idx(i)] = q.get(): blocks while the queue is empty
Collect ==
    /\ pc = "collect"
    /\ i < nprocess
    /\ queues[i] # <<>>
    /\ queues' = [queues EXCEPT ![i] = Tail(@)]
    /\ reads' = Append(reads, i)
    /\ part' = Append(part, <<first_idx(i), last_idx(i)>>)
    /\ IF CanAssign(y1, first_idx(i), last_idx(i), Head(queues[i]))
       THEN /\ y1' = SetSlice(y1, first_idx(i), last_idx(i), Head(queues[i]))
            /\ i' = i + 1
            /\ pc' = pc
       ELSE /\ pc' = "ValueError"
            /\ UNCHANGED <<y1, i>>
    /\ UNCHANGED <<guiVars, run, prev, x0, y0, nprocess, processes, puts>>

\* the loop stops one queue short
EndCollect_early ==
    /\ pc = "collect"
    /\ i >= nprocess - 1
    /\ pc' = "assert"
    /\ UNCHANGED <<guiVars, run, prev, x0, y0, nprocess, queues, processes, y1, i, puts, reads, part>>

\* the loop over queues is exhausted: t2 = time.time() and the two prints
EndCollect ==
    /\ pc = "collect"
    /\ i >= nprocess
    /\ pc' = "assert"
    /\ UNCHANGED <<guiVars, run, prev, x0, y0, nprocess, queues, processes, y1, i, puts, reads, part>>

\* assert numpy.allclose(y0, y1)
AssertClose ==
    /\ pc = "assert"
    /\ \E ok \in allclose(y0, y1) :
          pc' = IF ok THEN "done" ELSE "AssertionError"
    /\ UNCHANGED <<guiVars, run, prev, x0, y0, nprocess, queues, processes, y1, i, puts, reads, part>>

----------------------------------------------------------------------------
\* worker processes

\* the worker returns without queue.put
f_noPut(w) ==
    /\ w \in DOMAIN processes
    /\ processes[w].state = "started"
    /\ processes' = [processes EXCEPT ![w].state = "finished"]
    /\ UNCHANGED <<guiVars, run, prev, x0, y0, nprocess, queues, y1, pc, i, puts, reads, part>>

\* f(x, i, queue) run to completion in process w
f(w) ==
    /\ w \in DOMAIN processes
    /\ processes[w].state = "started"
    /\ LET a == processes[w].args
       IN  /\ queues' = [queues EXCEPT ![a.queue] = Append(@, f_ret(a.x, a.i))]
           /\ puts' = Append(puts, <<w, a.queue>>)
    /\ processes' = [processes EXCEPT ![w].state = "finished"]
    /\ UNCHANGED <<guiVars, run, prev, x0, y0, nprocess, y1, pc, i, reads, part>>

\* a started worker process dies (or hangs for good) before queue.put
Crash(w) ==
    /\ w \in DOMAIN processes
    /\ processes[w].state = "started"
    /\ processes' = [processes EXCEPT ![w].state = "crashed"]
    /\ UNCHANGED <<guiVars, run, prev, x0, y0, nprocess, queues, y1, pc, i, puts, reads, part>>

----------------------------------------------------------------------------

Main == Start \/ Alloc \/ Collect \/ EndCollect \/ AssertClose

Next ==
    \/ Start
    \/ Alloc
    \/ Collect
    \/ EndCollect
    \/ AssertClose
    \/ \E w \in 0..(MaxP - 1) : f(w)
    \/ \E w \in 0..(MaxP - 1) : Crash(w)

Spec == Init /\ [][Next]_vars

\* the operating system schedules every runnable process
LiveSpec ==
    /\ Init
    /\ [][Next]_vars
    /\ WF_vars(Main)
    /\ \A w \in 0..(MaxP - 1) : WF_vars(f(w))

----------------------------------------------------------------------------
\* the script executed again on the same x0 and nprocess: a new interpreter
\* runs the module-level code from the top, so the queues, the processes
\* and y1 are built anew

Rerun ==
    /\ pc \in {"done", "AssertionError"}
    /\ run < MaxRuns
    /\ run' = run + 1
    /\ prev' = y1
    /\ y0' = f0(x0)
    /\ queues' = [w \in 0..(nprocess - 1) |-> <<>>]
    /\ processes' = [w \in 0..(nprocess - 1) |->
                         [args |-> ProcessArgs(w), state |-> "created"]]
    /\ y1' = <<>>
    /\ pc' = "start"
    /\ i' = 0
    /\ puts' = <<>>
    /\ reads' = <<>>
    /\ part' = <<>>
    /\ UNCHANGED <<guiVars, x0, nprocess>>

RerunNext ==
    \/ Next
    \/ Rerun

RerunSpec == Init /\ [][RerunNext]_vars

----------------------------------------------------------------------------
\* evaluation of the partition lambdas alone, for larger sizes

PartInit ==
    /\ \E N \in 0..PartMaxN : x0 = [k \in 0..(N - 1) |-> k % (MaxVal + 1)]
    /\ nprocess \in 1..PartMaxP
    /\ Setup
    /\ GuiSetup

\* first_idx(w), last_idx(w) for the next w in range(nprocess)
PartStep ==
    /\ Len(part) < nprocess
    /\ part' = Append(part, <<first_idx(Len(part)), last_idx(Len(part))>>)
    /\ UNCHANGED <<guiVars, run, prev, x0, y0, nprocess, queues, processes, y1, pc, i, puts, reads>>

PartNext == PartStep

PartSpec == PartInit /\ [][PartNext]_vars

----------------------------------------------------------------------------
\* MaskImageWidget.py and MaskScatterWidget.py

\* data arrays and colormaps the callers and the dialogs can supply
Data == 1..MaxData

Colormaps == {"gray", "viridis", "temperature"}

\* PlotWidget.addImage / addScatter under a legend holding item old: a new
\* item gets the default colormap, an existing one keeps its own, and a
\* colormap argument that is not None overrides either
AddItem(old, data, cm) ==
    Some([data |-> data,
          colormap |-> IF cm # None THEN cm[1]
                       ELSE IF old # None THEN old[1].colormap
                       ELSE DefaultColormap])

\* MaskImageWidget.setBackgroundImage(image)
miw_setBackgroundImage(image) ==
    /\ button.exec = "none"
    /\ miw' = [miw EXCEPT !.bg = AddItem(miw.bg, image, None)]
    /\ ret' = [op |-> "miw.setBackgroundImage", value |-> None]
    /\ UNCHANGED <<msw, button, atOpen, scriptVars>>

\* MaskImageWidget.setImage(image)
miw_setImage(image) ==
    /\ button.exec = "none"
    /\ miw' = [miw EXCEPT !.active = AddItem(miw.active, image, None)]
    /\ ret' = [op |-> "miw.setImage", value |-> None]
    /\ UNCHANGED <<msw, button, atOpen, scriptVars>>

\* what MaskImageWidget.getBackgroundImage returns: the body evaluates
\* self.getImage(legend=self._bgImageLegend) and has no return statement
miw_getBackgroundImage_value(w) == None

\* MaskImageWidget.getBackgroundImage()
miw_getBackgroundImage ==
    /\ button.exec = "none"
    /\ ret' = [op |-> "miw.getBackgroundImage",
               value |-> miw_getBackgroundImage_value(miw)]
    /\ UNCHANGED <<miw, msw, button, atOpen, scriptVars>>

\* MaskScatterWidget.setBackgroundImage(image, colormap=cm)
msw_setBackgroundImage(image, cm) ==
    /\ button.exec = "none"
    /\ msw' = [msw EXCEPT !.bg = AddItem(msw.bg, image, cm)]
    /\ ret' = [op |-> "msw.setBackgroundImage", value |-> None]
    /\ UNCHANGED <<miw, button, atOpen, scriptVars>>

\* MaskScatterWidget.setScatter(x, y, v, colormap=cm)
msw_setScatter(v, cm) ==
    /\ button.exec = "none"
    /\ msw' = [msw EXCEPT !.scatter = AddItem(msw.scatter, v, cm)]
    /\ ret' = [op |-> "msw.setScatter", value |-> None]
    /\ UNCHANGED <<miw, button, atOpen, scriptVars>>

\* what MaskScatterWidget.getBackgroundImage returns
msw_getBackgroundImage_value(w) == w.bg

\* MaskScatterWidget.getBackgroundImage()
msw_getBackgroundImage ==
    /\ button.exec = "none"
    /\ ret' = [op |-> "msw.getBackgroundImage",
               value |-> msw_getBackgroundImage_value(msw)]
    /\ UNCHANGED <<miw, msw, button, atOpen, scriptVars>>

\* ColormapToolButton._bgColormapChanged(colormap) on plot w
_bgColormapChanged(w, cm) ==
    IF w.bg # None
    THEN [w EXCEPT !.bg = AddItem(w.bg, w.bg[1].data, Some(cm))]
    ELSE w

\* ColormapToolButton._scatterColormapChanged(colormap) on plot w
_scatterColormapChanged(w, cm) ==
    IF w.scatter # None
    THEN [w EXCEPT !.scatter = AddItem(w.scatter, w.scatter[1].data, Some(cm))]
    ELSE w

\* ColormapToolButton._setBgCmap up to self._bg_dialog.exec_()
_setBgCmap ==
    /\ button.exec = "none"
    /\ button' = [_bg_dialog |-> TRUE,
                  _scatter_dialog |-> button._scatter_dialog,
                  exec |-> "bg",
                  colormap |-> IF msw.bg = None
                               THEN Some(DefaultColormap)
                               ELSE Some(msw.bg[1].colormap)]
    /\ atOpen' = msw
    /\ UNCHANGED <<miw, msw, ret, scriptVars>>

\* ColormapToolButton._setScatterCmap up to self._scatter_dialog.exec_()
_setScatterCmap ==
    /\ button.exec = "none"
    /\ button' = [_bg_dialog |-> button._bg_dialog,
                  _scatter_dialog |-> TRUE,
                  exec |-> "scatter",
                  colormap |-> IF msw.scatter = None
                               THEN Some(DefaultColormap)
                               ELSE Some(msw.scatter[1].colormap)]
    /\ atOpen' = msw
    /\ UNCHANGED <<miw, msw, ret, scriptVars>>

\* the running dialog emits sigColormapChanged(cm): the connected slot runs
sigColormapChanged(cm) ==
    /\ button.exec # "none"
    /\ msw' = IF button.exec = "bg"
              THEN _bgColormapChanged(msw, cm)
              ELSE _scatterColormapChanged(msw, cm)
    /\ UNCHANGED <<miw, button, ret, atOpen, scriptVars>>

\* exec_() returns true: the slot is disconnected and the handler returns
DialogAccepted ==
    /\ button.exec # "none"
    /\ button' = [button EXCEPT !.exec = "none", !.colormap = None]
    /\ ret' = [op |-> IF button.exec = "bg" THEN "_setBgCmap accepted"
                      ELSE "_setScatterCmap accepted",
               value |-> None]
    /\ UNCHANGED <<miw, msw, atOpen, scriptVars>>

\* exec_() returns false: "Restore the previous colormap"; both handlers
\* call self._bgColormapChanged(colormap)
DialogRejected ==
    /\ button.exec # "none"
    /\ msw' = _bgColormapChanged(msw, button.colormap[1])
    /\ button' = [button EXCEPT !.exec = "none", !.colormap = None]
    /\ ret' = [op |-> IF button.exec = "bg" THEN "_setBgCmap rejected"
                      ELSE "_setScatterCmap rejected",
               value |-> None]
    /\ UNCHANGED <<miw, atOpen, scriptVars>>

GuiInit ==
    /\ x0 = <<>>
    /\ nprocess = 0
    /\ Setup
    /\ GuiSetup

GuiNext ==
    \/ \E d \in Data : miw_setBackgroundImage(d)
    \/ \E d \in Data : miw_setImage(d)
    \/ miw_getBackgroundImage
    \/ \E d \in Data, c \in Colormaps : msw_setBackgroundImage(d, Some(c))
    \/ \E d \in Data : msw_setBackgroundImage(d, None)
    \/ \E d \in Data, c \in Colormaps : msw_setScatter(d, Some(c))
    \/ \E d \in Data : msw_setScatter(d, None)
    \/ msw_getBackgroundImage
    \/ _setBgCmap
    \/ _setScatterCmap
    \/ \E c \in Colormaps : sigColormapChanged(c)
    \/ DialogAccepted
    \/ DialogRejected

GuiSpec == GuiInit /\ [][GuiNext]_vars

----------------------------------------------------------------------------
\* properties

\* the main process has left the loop over the queues
AfterCollection == pc \in {"assert", "done", "AssertionError"}

State(w) == processes[w].state

\* workers whose range [first_idx(w), last_idx(w)) holds index k
Covered(k) == {w \in 0..(nprocess - 1) : first_idx(w) <= k /\ k < last_idx(w)}

NumPuts(q) == Cardinality({k \in 1..Len(puts) : puts[k][2] = q})

NumGets(q) == Cardinality({k \in 1..Len(reads) : reads[k] = q})

\* C1: for 1 <= nprocess <= len(x0), the nprocess evaluated ranges
\* [first_idx(w), last_idx(w)) are pairwise disjoint and their union is
\* 0..len(x0)-1: every index lies in exactly one range.
C1_PartitionExact ==
    (1 <= nprocess /\ nprocess <= len(x0) /\ Len(part) = nprocess) =>
        \A k \in 0..(len(x0) - 1) :
            Cardinality({w \in 1..Len(part) :
                            part[w][1] <= k /\ k < part[w][2]}) = 1

C1_Witness ==
    /\ Len(part) = nprocess
    /\ 3 <= nprocess
    /\ nprocess < len(x0)
    /\ len(x0) % nprocess # 0
    /\ part[1] # part[nprocess]

\* C2: for nprocess >= 1, once the main process has left the collection
\* loop, y1[k] is x0[k]**2 + cos(x0[k]) for every index k, and the final
\* allclose assertion does not fail.
C2_OutputEqualsReference ==
    (nprocess >= 1 /\ AfterCollection) =>
        /\ DOMAIN y1 = DOMAIN x0
        /\ \A k \in DOMAIN x0 : y1[k] = Elem(x0[k])
        /\ pc # "AssertionError"

C2_Witness ==
    /\ pc = "done"
    /\ nprocess >= 2
    /\ \E k \in DOMAIN x0 : x0[k] # x0[0]

\* C3: whatever the order in which the workers publish, y1 is determined by
\* the progress of the main process alone: the slices of the queues already
\* read hold the reference values and the rest is untouched, so after the
\* loop y1 is the reference result.
C3_InterleavingIndependent ==
    (nprocess >= 1 /\ (pc = "collect" \/ AfterCollection)) =>
        \A k \in DOMAIN x0 :
            y1[k] = IF k < first_idx(i) THEN y0[k] ELSE Uninit

C3_Witness ==
    /\ pc = "done"
    /\ nprocess >= 3
    /\ puts[1][1] = nprocess - 1
    /\ puts[Len(puts)][1] = 0
    /\ \E k \in DOMAIN x0 : x0[k] # x0[0]

\* C4: the k-th read of the main process is on queue k-1; no queue is read
\* twice; after the loop every queue has been read once.  A read of queue c
\* takes a message that is there and changes y1 exactly on
\* [first_idx(c), last_idx(c)), where it stores that message; y1 changes in
\* the loop only on a read.
C4_ReadsInv ==
    /\ \A k \in 1..Len(reads) : reads[k] = k - 1
    /\ AfterCollection => Len(reads) = (IF nprocess > 0 THEN nprocess ELSE 0)

C4_ReadStep ==
    /\ reads' # reads =>
          /\ reads' = Append(reads, Len(reads))
          /\ queues[Len(reads)] # <<>>
          /\ LET c == Len(reads)
                 m == Head(queues[c])
             IN  /\ len(m) = last_idx(c) - first_idx(c)
                 /\ \A k \in DOMAIN y1 :
                       y1'[k] = IF first_idx(c) <= k /\ k < last_idx(c)
                                THEN m[k - first_idx(c)]
                                ELSE y1[k]
    /\ (pc = "collect" /\ y1' # y1) => reads' # reads

C4_OrderedCollection == []C4_ReadsInv /\ [][C4_ReadStep]_vars

C4_Witness ==
    /\ pc = "done"
    /\ reads = <<0, 1, 2>>
    /\ puts[1][1] = 1

\* C5: queue q holds at most one message at any time; it gets at most one
\* put, by worker q, of the values for range q, and at most one get, by the
\* main process at its loop index q; a completed run has exactly one of each.
C5_QueueInv ==
    /\ \A k \in 1..Len(puts) : puts[k][1] = puts[k][2]
    /\ \A q \in DOMAIN queues :
          /\ Len(queues[q]) <= 1
          /\ NumPuts(q) <= 1
          /\ NumGets(q) <= 1
          /\ Len(queues[q]) = NumPuts(q) - NumGets(q)
          /\ queues[q] # <<>> =>
                Head(queues[q]) = Slice(y0, first_idx(q), last_idx(q))
          /\ pc = "done" => (NumPuts(q) = 1 /\ NumGets(q) = 1)

C5_QueueStep ==
    \A q \in DOMAIN queues :
        /\ Len(queues'[q]) > Len(queues[q]) =>
              (State(q) = "started" /\ processes'[q].state = "finished")
        /\ Len(queues'[q]) < Len(queues[q]) =>
              (pc = "collect" /\ i = q /\ processes' = processes)

C5_OneShotChannels == []C5_QueueInv /\ [][C5_QueueStep]_vars

C5_Witness ==
    /\ pc = "done"
    /\ nprocess >= 3
    /\ \A q \in DOMAIN queues : NumPuts(q) = 1 /\ NumGets(q) = 1

\* C6: for nprocess >= 1, when the main process has left the collection
\* loop every worker has published and every element of y1 has been
\* written; and y1 is not fully written before all workers have published.
C6_PopulatedAfterAllReport ==
    nprocess >= 1 =>
        /\ AfterCollection =>
              /\ \A w \in DOMAIN processes : State(w) = "finished"
              /\ \A w \in DOMAIN processes : NumPuts(w) = 1
              /\ \A k \in DOMAIN x0 : y1[k] # Uninit
        /\ (pc = "collect" /\ len(x0) >= 1
               /\ \A k \in DOMAIN y1 : y1[k] # Uninit) =>
              \A w \in DOMAIN processes : State(w) = "finished"

C6_Witness ==
    /\ pc = "assert"
    /\ nprocess >= 2
    /\ len(x0) >= 2
    /\ \A k \in DOMAIN y1 : y1[k] # Uninit

\* C7: with fair scheduling, unless some worker crashes, eventually every
\* worker has put its result and finished, and the main process has read
\* every queue and reached the final assertion.
C7_Completes ==
    \/ <>(\E w \in DOMAIN processes : State(w) = "crashed")
    \/ <>(/\ AfterCollection
          /\ \A w \in DOMAIN processes : State(w) = "finished" /\ NumPuts(w) = 1
          /\ \A w \in DOMAIN processes : NumGets(w) = 1)

C7_Witness ==
    /\ pc = "done"
    /\ nprocess >= 2
    /\ \A w \in DOMAIN processes : State(w) = "finished"
    /\ Len(reads) = nprocess
    /\ puts[1][1] # 0

\* C8: a worker j that died before its put stays dead and its queue stays
\* empty; the main process never gets past its read of queue j: it reads
\* no queue from j on, never reaches the assertion and ends in no error.
C8_BlockedInv ==
    \A j \in DOMAIN processes :
        State(j) = "crashed" =>
            /\ pc \in {"start", "collect"}
            /\ pc = "collect" => i <= j
            /\ \A c \in j..(nprocess - 1) : NumGets(c) = 0

C8_BlockedStep ==
    \A j \in DOMAIN processes :
        State(j) = "crashed" =>
            (processes'[j].state = "crashed" /\ queues'[j] = <<>>)

C8_HangsOnDeadWorker == []C8_BlockedInv /\ [][C8_BlockedStep]_vars

C8_Witness ==
    /\ pc = "collect"
    /\ i \in DOMAIN processes
    /\ State(i) = "crashed"
    /\ \E c \in DOMAIN queues : c > i /\ queues[c] # <<>>

\* C9: with nprocess <= 0 the run is rejected before any worker is
\* launched: it never enters the collection loop or the final assertion.
C9_ConfigValidated ==
    nprocess <= 0 => pc \notin {"collect", "assert", "done", "AssertionError"}

\* C10: with nprocess > len(x0) some ranges are empty; the run raises no
\* error, a worker with an empty range publishes a zero-length array, the
\* read of it leaves y1 as it is, the ranges still cover every index once,
\* and after the loop y1 is the reference result.
C10_EmptyInv ==
    nprocess > len(x0) =>
        /\ \E w \in 0..(nprocess - 1) : first_idx(w) = last_idx(w)
        /\ pc # "ValueError"
        /\ \A q \in DOMAIN queues :
              (first_idx(q) = last_idx(q) /\ queues[q] # <<>>) =>
                  len(Head(queues[q])) = 0
        /\ \A k \in DOMAIN x0 : Cardinality(Covered(k)) = 1
        /\ AfterCollection => (y1 = y0 /\ pc # "AssertionError")

C10_EmptyStep ==
    (nprocess > len(x0) /\ reads' # reads /\ first_idx(i) = last_idx(i)) =>
        y1' = y1

C10_EmptyRangesHandled == []C10_EmptyInv /\ [][C10_EmptyStep]_vars

C10_Witness ==
    /\ pc = "done"
    /\ nprocess > len(x0)
    /\ len(x0) >= 2
    /\ y1 = y0
    /\ \E w \in 1..Len(part) : part[w][1] = part[w][2]

\* C11: the range evaluated for worker w is [floor(w*N/P), floor((w+1)*N/P))
\* with N = len(x0), P = nprocess; the worker computes exactly the elements
\* of that range and its result fits the slice the main process assigns;
\* P = 1 gives [0, N), P = N gives one element per worker, and N = 7, P = 3
\* gives [0,2), [2,4), [4,7).
C11_RangeFormula ==
    LET N == len(x0)
        P == nprocess
    IN  /\ \A w \in 1..Len(part) :
              LET a == part[w][1]
                  b == part[w][2]
                  m == f_ret(x0, w - 1)
              IN  /\ a * P <= (w - 1) * N /\ (w - 1) * N < (a + 1) * P
                  /\ b * P <= w * N /\ w * N < (b + 1) * P
                  /\ DOMAIN m = 0..(b - a - 1)
                  /\ \A k \in DOMAIN m : m[k] = Elem(x0[a + k])
                  /\ len(m) = SliceLen(y0, a, b)
                  /\ \A k \in a..(b - 1) :
                        SetSlice([j \in DOMAIN x0 |-> Uninit], a, b, m)[k] = y0[k]
                  /\ P = 1 => (a = 0 /\ b = N)
                  /\ P = N => (a = w - 1 /\ b = w)
        /\ (N = 7 /\ P = 3 /\ Len(part) = 3) =>
              part = << <<0, 2>>, <<2, 4>>, <<4, 7>> >>

C11_Witness ==
    /\ len(x0) = 7
    /\ nprocess = 3
    /\ part = << <<0, 2>>, <<2, 4>>, <<4, 7>> >>

\* sizes of the evaluated ranges, in worker order
Sizes == [w \in 1..Len(part) |-> part[w][2] - part[w][1]]

\* C12 as stated: for N = 10, P = 3 the range sizes are [4, 3, 3].
C12_Sizes433 ==
    (len(x0) = 10 /\ nprocess = 3 /\ Len(part) = 3) => Sizes = <<4, 3, 3>>

\* C12 amended: for N = 10, P = 3 the floor-based ranges are [0,3), [3,6),
\* [6,10): the sizes in worker order are [3, 3, 4], the last range taking
\* the remainder.
C12_Sizes334 ==
    (len(x0) = 10 /\ nprocess = 3 /\ Len(part) = 3) =>
        /\ Sizes = <<3, 3, 4>>
        /\ part = << <<0, 3>>, <<3, 6>>, <<6, 10>> >>

C12_Witness ==
    /\ len(x0) = 10
    /\ nprocess = 3
    /\ Len(part) = 3
    /\ Sizes[3] = 4

\* C16: every process has been started before the main process enters the
\* collection loop, hence before its first get; a start never happens after
\* a get, and never waits for a result.
C16_StartedInv ==
    (pc # "start" \/ reads # <<>>) =>
        \A w \in DOMAIN processes : State(w) # "created"

C16_StartStep ==
    \A w \in DOMAIN processes :
        (State(w) = "created" /\ processes'[w].state # "created") =>
            /\ reads = <<>>
            /\ pc = "start"
            /\ \A v \in DOMAIN processes : v < w => State(v) # "created"
            /\ queues' = queues

C16_AllStartedBeforeFirstGet == []C16_StartedInv /\ [][C16_StartStep]_vars

C16_Witness ==
    /\ pc = "collect"
    /\ i = 0
    /\ nprocess >= 3
    /\ \A w \in DOMAIN processes : State(w) = "started"

\* C13: for nprocess >= 1, a second execution on the same x0 and nprocess
\* ends with the y1 the first one ended with, whatever the two
\* interleavings; it starts from newly built queues, processes and y1, and
\* what it has not yet written of y1 is unwritten, not left from before.
C13_SameOutputInv ==
    (run >= 2 /\ nprocess >= 1) =>
        /\ AfterCollection => (y1 = prev /\ pc # "AssertionError")
        /\ pc = "collect" =>
              \A k \in DOMAIN y1 : k >= first_idx(i) => y1[k] = Uninit
        /\ \A k \in 1..Len(puts) : puts[k][1] \in DOMAIN processes
        /\ \A q \in DOMAIN queues : Len(queues[q]) = NumPuts(q) - NumGets(q)

C13_RerunStep ==
    run' # run =>
        /\ x0' = x0
        /\ nprocess' = nprocess
        /\ prev' = y1
        /\ y1' = <<>>
        /\ \A q \in DOMAIN queues' : queues'[q] = <<>>
        /\ \A w \in DOMAIN processes' :
              processes'[w] = [args |-> [x |-> x0, i |-> w, queue |-> w],
                               state |-> "created"]

C13_Idempotent == []C13_SameOutputInv /\ [][C13_RerunStep]_vars

C13_Witness ==
    /\ run = 2
    /\ pc = "done"
    /\ nprocess >= 2
    /\ y1 = prev
    /\ puts[1][1] # 0
    /\ \E k \in DOMAIN x0 : x0[k] # x0[0]

\* C14: MaskImageWidget.getBackgroundImage returns the item last set with
\* MaskImageWidget.setBackgroundImage: once a background image has been
\* set its return value is that item, not None.
C14_GetReturnsBackground ==
    (ret.op = "miw.getBackgroundImage" /\ miw.bg # None) =>
        (ret.value = miw.bg /\ ret.value # None)

\* C15: when the scatter colormap dialog is rejected, the scatter has the
\* colormap it had when the dialog was opened and the background image
\* (data and colormap) is as it was then.
C15_RejectRestoresScatter ==
    (ret.op = "_setScatterCmap rejected" /\ button.exec = "none"
        /\ atOpen.scatter # None) =>
        /\ msw.scatter # None
        /\ msw.scatter[1].colormap = atOpen.scatter[1].colormap
        /\ msw.bg = atOpen.bg

====
